---------------------------- MODULE Spec2Model ----------------------------
(***************************************************************************)
(* Tunexa: the catalog module python/main.py and the import script        *)
(* python/send_to_api.py, as one execution of                             *)
(*     python send_to_api.py                                              *)
(* The script imports auto_audio_db from main, POSTs it as JSON to the    *)
(* import endpoint and, when send_to_tunexa returns False, writes it to   *)
(* auto_audio_db.json and prints the manual-import instructions.          *)
(*                                                                         *)
(* The environment of the script is drawn from small sets: the module     *)
(* that `from main import auto_audio_db` resolves (the shipped main.py    *)
(* among them), the previous content of auto_audio_db.json, the outcome   *)
(* of requests.post, and the outcome of the file system calls.            *)
(***************************************************************************)
EXTENDS Integers, Sequences, FiniteSets, TLC

(***************************************************************************)
(* Bounds of the model.                                                    *)
(***************************************************************************)
\* longest generation list of a drawn catalog
MaxGens == 1
\* longest "errors" list of a drawn response body
MaxErrors == 6
\* longest generation list of a catalog drawn for the JSON round trip
MaxRoundTripGens == 2

(***************************************************************************)
(* Python values.  A dict is its insertion-ordered sequence of            *)
(* <<key, value>> pairs with pairwise distinct keys; a list is its        *)
(* sequence of items.                                                      *)
(***************************************************************************)
Str(s) == [t |-> "str", s |-> s]
Num(n) == [t |-> "int", n |-> n]
None == [t |-> "None"]
List(items) == [t |-> "list", items |-> items]
Dict(pairs) == [t |-> "dict", pairs |-> pairs]

Keys(d) == {d.pairs[i][1] : i \in 1..Len(d.pairs)}

\* d[k], for k a key of d
Item(d, k) == d.pairs[CHOOSE i \in 1..Len(d.pairs) : d.pairs[i][1] = k][2]

\* d[k] = v: an existing key keeps its position, a new key goes last
DictSet(d, k, v) ==
  IF k \in Keys(d)
    THEN Dict([i \in 1..Len(d.pairs) |->
                 IF d.pairs[i][1] = k THEN <<k, v>> ELSE d.pairs[i]])
    ELSE Dict(Append(d.pairs, <<k, v>>))

\* a dict display {k1: v1, k2: v2, ...}: the pairs are stored left to right,
\* so a repeated key keeps its first position and its last value
RECURSIVE DictFrom(_, _)
DictFrom(d, pairs) ==
  IF pairs = <<>> THEN d
  ELSE DictFrom(DictSet(d, Head(pairs)[1], Head(pairs)[2]), Tail(pairs))

DictLiteral(pairs) == DictFrom(Dict(<<>>), pairs)

\* len(x) of a dict, a list or a str; otherwise TypeError
HasLen(x) == x.t \in {"dict", "list", "str"}
PyLen(x) ==
  CASE x.t = "dict" -> Len(x.pairs)
    [] x.t = "list" -> Len(x.items)
    [] x.t = "str" -> Len(x.s)

\* bool(x)
Truthy(x) ==
  CASE x.t = "None" -> FALSE
    [] x.t = "int" -> x.n # 0
    [] x.t = "str" -> x.s # ""
    [] x.t = "list" -> x.items # <<>>
    [] x.t = "dict" -> x.pairs # <<>>

\* d.get(k) with the default left out: an absent key gives None
Get_no_default(d, k, default) == IF k \in Keys(d) THEN Item(d, k) ELSE None

\* d.get(k, default)
Get(d, k, default) == IF k \in Keys(d) THEN Item(d, k) ELSE default

(***************************************************************************)
(* python/main.py.  Strings are written with their diacritics removed     *)
(* (Skoda stands for the source's Škoda spelling, sucasnost for            *)
(* súčasnosť): the module language has ASCII strings only.                *)
(***************************************************************************)
\* a record written without its premium system
Rec_three(generacia, roky, zakladny_system, premiovy_system) ==
  DictLiteral(<< <<"generacia", Str(generacia)>>,
                 <<"roky", Str(roky)>>,
                 <<"zakladny_system", Str(zakladny_system)>> >>)

\* one generation record, the four keys in the order every record of
\* main.py writes them
Rec(generacia, roky, zakladny_system, premiovy_system) ==
  DictLiteral(<< <<"generacia", Str(generacia)>>,
                 <<"roky", Str(roky)>>,
                 <<"zakladny_system", Str(zakladny_system)>>,
                 <<"premiovy_system", Str(premiovy_system)>> >>)

\* main.py lines 14-124
vag_group_data ==
  DictLiteral(<<
    <<"Skoda", DictLiteral(<<
      <<"Octavia", List(<<
        Rec("Gen 3 (5E)", "2012-2019", "Zakladny (4-8 repro)", "Canton Sound System (10 repro)"),
        Rec("Gen 4 (NX)", "2020-sucasnost", "Zakladny (8 repro)", "Canton Sound System (12 repro)") >>) >>,
      <<"Superb", List(<<
        Rec("Gen 2 (3T) (Facelift)", "2013-2015", "'Swing' / 'Bolero' (8 repro)", "Skoda Sound System (10 repro)"),
        Rec("Gen 3 (3V)", "2015-2023", "'Swing' / 'Bolero' (8 repro)", "Canton Sound System (12 repro)") >>) >>,
      <<"Kodiaq", List(<<
        Rec("Gen 1", "2016-2023", "Zakladny (8 repro)", "Canton Sound System (10 repro)") >>) >>,
      <<"Fabia", List(<<
        Rec("Gen 3 (NJ)", "2014-2021", "Zakladny (4 repro)", "Skoda Surround (6 repro, Arkamys)") >>) >> >>) >>,
    <<"Volkswagen", DictLiteral(<<
      <<"Golf", List(<<
        Rec("Gen 7 (Mk7)", "2012-2019", "'Composition' (4-8 repro)", "Dynaudio Excite (10 repro)"),
        Rec("Gen 8 (Mk8)", "2020-sucasnost", "Zakladny (7 repro)", "Harman Kardon (10 repro)") >>) >>,
      <<"Passat", List(<<
        Rec("B7", "2010-2014", "'RCD 310' (8 repro)", "Dynaudio Confidence (10 repro)"),
        Rec("B8", "2014-2023", "'Composition Media' (8 repro)", "Dynaudio Confidence (12 repro)") >>) >>,
      <<"Tiguan", List(<<
        Rec("Gen 1 (Facelift)", "2011-2016", "'RCD 310' (8 repro)", "Dynaudio (8 repro)"),
        Rec("Gen 2", "2016-2023", "Zakladny (8 repro)", "Dynaudio Excite (10 repro)") >>) >>,
      <<"Polo", List(<<
        Rec("Gen 5 (6R/6C)", "2009-2017", "Zakladny (4-6 repro)", "Ziaden znackovy premiovy system"),
        Rec("Gen 6 (AW)", "2017-sucasnost", "Zakladny (4-6 repro)", "BeatsAudio (6 repro + subwoofer)") >>) >>,
      <<"Touareg", List(<<
        Rec("Gen 2 (7P)", "2010-2018", "Zakladny (8 repro)", "Dynaudio Confidence (12 repro)"),
        Rec("Gen 3 (CR)", "2018-sucasnost", "Zakladny (8 repro)", "Dynaudio Consequence (14 repro)") >>) >> >>) >>,
    <<"Audi", DictLiteral(<<
      <<"A3", List(<<
        Rec("8V", "2012-2020", "Audi Sound System (10 repro)", "Bang & Olufsen Sound System (14 repro)"),
        Rec("8Y", "2020-sucasnost", "Audi Sound System (10 repro)", "Bang & Olufsen 3D (15 repro)") >>) >>,
      <<"A4", List(<<
        Rec("B8 (Facelift)", "2012-2015", "Audi Sound System (10 repro, 180W)", "Bang & Olufsen Sound System (14 repro, 505W)"),
        Rec("B9", "2016-sucasnost", "Audi Sound System (10 repro, 180W)", "Bang & Olufsen 3D Sound System (19 repro, 755W)") >>) >>,
      <<"A6", List(<<
        Rec("C7 (4G)", "2011-2018", "Audi Sound System (10 repro, 180W)", "Bose Surround (14 repro) ALEBO Bang & Olufsen Advanced 3D (15 repro)"),
        Rec("C8 (4K)", "2018-sucasnost", "Audi Sound System (10 repro)", "Bang & Olufsen Premium 3D (16 repro) ALEBO Bang & Olufsen Advanced 3D (19 repro)") >>) >>,
      <<"Q5", List(<<
        Rec("Gen 1 (8R Facelift)", "2012-2017", "Audi Sound System (10 repro)", "Bang & Olufsen Sound System (14 repro)"),
        Rec("Gen 2 (FY)", "2017-sucasnost", "Audi Sound System (10 repro)", "Bang & Olufsen 3D (19 repro)") >>) >>,
      <<"Q7", List(<<
        Rec("Gen 1 (4L Facelift)", "2009-2015", "Zakladny (8 repro)", "Bose Surround (14 repro) ALEBO Bang & Olufsen Advanced (14 repro)"),
        Rec("Gen 2 (4M)", "2015-sucasnost", "Audi Sound System (10 repro)", "Bose 3D (19 repro) ALEBO Bang & Olufsen 3D Advanced (23 repro)") >>) >> >>) >>,
    <<"Seat", DictLiteral(<<
      <<"Leon", List(<<
        Rec("Gen 3 (5F)", "2012-2020", "Zakladny (6-8 repro)", "Seat Sound System (10 repro)"),
        Rec("Gen 4 (KL)", "2020-sucasnost", "Zakladny (7 repro)", "BeatsAudio (10 repro, 340W)") >>) >>,
      <<"Ibiza", List(<<
        Rec("Gen 4 (6J Facelift)", "2012-2017", "Zakladny (4-6 repro)", "Ziaden znackovy premiovy system"),
        Rec("Gen 5 (6F)", "2017-sucasnost", "Zakladny (6 repro)", "BeatsAudio (7 repro, 300W)") >>) >>,
      <<"Ateca", List(<<
        Rec("Gen 1", "2016-sucasnost", "Zakladny (8 repro)", "Seat Sound System (10 repro)") >>) >> >>) >>,
    <<"Cupra", DictLiteral(<<
      <<"Formentor", List(<<
        Rec("Gen 1", "2020-sucasnost", "Zakladny (7 repro)", "BeatsAudio (10 repro, 340W)") >>) >>,
      <<"Born", List(<<
        Rec("Gen 1", "2021-sucasnost", "Zakladny (5 repro)", "BeatsAudio (10 repro)") >>) >> >>) >>,
    <<"Porsche", DictLiteral(<<
      <<"911", List(<<
        Rec("991", "2011-2018", "Sound Package Plus (9 repro)", "Bose Surround (12 repro) ALEBO Burmester High-End (12 repro)"),
        Rec("992", "2019-sucasnost", "Sound Package Plus (8 repro)", "Bose Surround (12 repro) ALEBO Burmester High-End (13 repro)") >>) >>,
      <<"Macan", List(<<
        Rec("95B", "2014-sucasnost", "Sound Package Plus (10 repro, 150W)", "Bose Surround (14 repro, 665W) ALEBO Burmester High-End (16 repro, 1000W+)") >>) >>,
      <<"Cayenne", List(<<
        Rec("Gen 2 (92A)", "2010-2017", "Sound Package Plus (10 repro)", "Bose Surround (14 repro) ALEBO Burmester High-End (16 repro)"),
        Rec("Gen 3 (PO536)", "2017-sucasnost", "Sound Package Plus (10 repro)", "Bose Surround (14 repro) ALEBO Burmester 3D High-End (21 repro)") >>) >>,
      <<"Panamera", List(<<
        Rec("Gen 1 (970)", "2009-2016", "Sound Package Plus (10 repro)", "Bose Surround (14 repro) ALEBO Burmester High-End (16 repro)"),
        Rec("Gen 2 (971)", "2016-sucasnost", "Hi-Fi (10 repro)", "Bose Surround (14 repro) ALEBO Burmester 3D High-End (21 repro)") >>) >> >>) >>,
    <<"Bentley", DictLiteral(<<
      <<"Continental GT", List(<<
        Rec("Gen 3", "2018-sucasnost", "Bentley Signature (10 repro, 650W)", "Bang & Olufsen for Bentley (16 repro, 1500W) ALEBO Naim for Bentley (18 repro, 2200W)") >>) >> >>) >>
  >>)

\* main.py lines 128-325
german_premium_data ==
  DictLiteral(<<
    <<"BMW", DictLiteral(<<
      <<"Rad 1", List(<<
        Rec("F20/F21", "2011-2019", "Zakladny (6 repro) alebo HiFi (7 repro)", "Harman Kardon (12 repro)") >>) >>,
      <<"Rad 3", List(<<
        Rec("F30/F31", "2012-2018", "Zakladny (6 repro) alebo HiFi (9 repro, 205W)", "Harman Kardon Surround (16 repro, 600W)"),
        Rec("G20/G21", "2019-sucasnost", "Zakladny (6 repro) alebo HiFi (10 repro, 205W)", "Harman Kardon Surround (16 repro, 464W)") >>) >>,
      <<"Rad 5", List(<<
        Rec("F10/F11 (Facelift)", "2013-2016", "HiFi (12 repro, 205W)", "Harman Kardon (16 repro, 600W) ALEBO Bang & Olufsen High End (16 repro, 1200W)"),
        Rec("G30/G31", "2017-2023", "HiFi (12 repro, 205W)", "Harman Kardon (16 repro, 600W) ALEBO Bowers & Wilkins Diamond (16 repro, 1400W)") >>) >>,
      <<"X1", List(<<
        Rec("E84", "2009-2015", "Zakladny (6 repro) alebo HiFi (8 repro)", "Harman Kardon (11 repro)"),
        Rec("F48", "2015-2022", "Zakladny (6 repro) alebo HiFi (7 repro)", "Harman Kardon (12 repro)") >>) >>,
      <<"X3", List(<<
        Rec("F25", "2010-2017", "Zakladny (6 repro) alebo HiFi (9 repro)", "Harman Kardon (16 repro)"),
        Rec("G01", "2017-sucasnost", "HiFi (12 repro)", "Harman Kardon (16 repro)") >>) >>,
      <<"X5", List(<<
        Rec("F15", "2013-2018", "HiFi (9 repro)", "Harman Kardon (16 repro) ALEBO Bang & Olufsen High End (16 repro)"),
        Rec("G05", "2018-sucasnost", "HiFi (10 repro)", "Harman Kardon (16 repro) ALEBO Bowers & Wilkins Diamond (20 repro)") >>) >> >>) >>,
    <<"Mercedes-Benz", DictLiteral(<<
      <<"A-Class", List(<<
        Rec("W176", "2012-2018", "Audio 20 (6 repro)", "Harman Kardon Logic7 (12 repro)"),
        Rec("W177", "2018-sucasnost", "Zakladny (6 repro) alebo Advanced (10 repro)", "Burmester Surround (12 repro)") >>) >>,
      <<"C-Class", List(<<
        Rec("W204 (Facelift)", "2011-2014", "Audio 20 (cca 8 repro)", "Harman Kardon Logic7 (12 repro)"),
        Rec("W205", "2014-2021", "Audio 20 (cca 8 repro)", "Burmester Surround (13 repro, 590W)"),
        Rec("W206", "2021-sucasnost", "Zakladny system", "Burmester 3D Surround (15 repro, 710W)") >>) >>,
      <<"E-Class", List(<<
        Rec("W212 (Facelift)", "2013-2016", "Audio 20", "Harman Kardon Logic7 (14 repro)"),
        Rec("W213", "2016-2023", "Zakladny (8 repro)", "Burmester Surround (13 repro) ALEBO Burmester High-End 3D (23 repro)") >>) >>,
      <<"S-Class", List(<<
        Rec("W222", "2013-2020", "Zakladny (10 repro)", "Burmester Surround (13 repro) ALEBO Burmester High-End 3D (24 repro)"),
        Rec("W223", "2020-sucasnost", "Burmester 3D Surround (15 repro)", "Burmester High-End 4D (31 repro)") >>) >>,
      <<"GLC-Class", List(<<
        Rec("X253", "2015-2022", "Audio 20 (8 repro)", "Burmester Surround (13 repro, 590W)") >>) >>,
      <<"GLE-Class", List(<<
        Rec("W166 (ML-Class)", "2011-2018", "Audio 20", "Harman Kardon Logic7 (14 repro)"),
        Rec("V167", "2019-sucasnost", "Advanced (9 repro)", "Burmester Surround (13 repro)") >>) >> >>) >>,
    <<"Toyota", DictLiteral(<<
      <<"Yaris", List(<<
        Rec("XP130 (Gen 3)", "2011-2019", "Toyota Touch (4-6 repro)", "Ziaden znackovy premiovy system"),
        Rec("XP210 (Gen 4)", "2020-sucasnost", "Zakladny (6 repro)", "JBL (8 repro)") >>) >>,
      <<"Corolla", List(<<
        Rec("E170 (Gen 11)", "2013-2018", "Toyota Touch 2 (6 repro)", "Ziaden znackovy premiovy system (v EU)"),
        Rec("E210 (Gen 12)", "2018-sucasnost", "Zakladny (6 repro)", "JBL (8 repro)") >>) >>,
      <<"C-HR", List(<<
        Rec("Gen 1", "2016-2023", "Zakladny (6 repro)", "JBL (9 repro)") >>) >>,
      <<"RAV4", List(<<
        Rec("XA40 (Gen 4)", "2013-2018", "Toyota Touch 2 (6 repro)", "JBL GreenEdge (11 repro)"),
        Rec("XA50 (Gen 5)", "2019-sucasnost", "Zakladny (6 repro)", "JBL (11 repro)") >>) >> >>) >>,
    <<"Lexus", DictLiteral(<<
      <<"IS", List(<<
        Rec("XE30", "2013-sucasnost", "Lexus Premium (Pioneer) (10 repro)", "Mark Levinson Premium Surround (15 repro, 835W)") >>) >>,
      <<"NX", List(<<
        Rec("AZ10 (Gen 1)", "2014-2021", "Lexus Premium (Pioneer) (10 repro)", "Mark Levinson (14 repro)"),
        Rec("AZ20 (Gen 2)", "2021-sucasnost", "Lexus Premium (10 repro)", "Mark Levinson (17 repro)") >>) >>,
      <<"RX", List(<<
        Rec("AL10 (Gen 3 facelift)", "2012-2015", "Lexus Premium (9 repro)", "Mark Levinson (15 repro)"),
        Rec("AL20 (Gen 4)", "2015-2022", "Lexus Premium (9 alebo 12 repro)", "Mark Levinson (15 repro)") >>) >> >>) >>,
    <<"Honda", DictLiteral(<<
      <<"Civic", List(<<
        Rec("Gen 9 (FK)", "2012-2017", "Zakladny (4-6 repro)", "Honda Premium Audio (8 repro)"),
        Rec("Gen 10 (FK)", "2017-2022", "Zakladny (8 repro)", "Honda Premium Audio (11 repro)"),
        Rec("Gen 11 (FE/FL)", "2022-sucasnost", "Zakladny (8 repro)", "Bose Centerpoint (12 repro)") >>) >>,
      <<"CR-V", List(<<
        Rec("Gen 4 (RM)", "2012-2018", "Zakladny (6 repro)", "Premium Audio System (7 repro)"),
        Rec("Gen 5 (RW)", "2018-2023", "Zakladny (8 repro)", "Honda Premium Audio (9 repro)") >>) >> >>) >>,
    <<"Nissan", DictLiteral(<<
      <<"Juke", List(<<
        Rec("F16 (Gen 2)", "2019-sucasnost", "Zakladny (4 alebo 6 repro)", "Bose Personal Plus (8 repro)") >>) >>,
      <<"Qashqai", List(<<
        Rec("J11 (Gen 2)", "2013-2021", "Zakladny (4 alebo 6 repro)", "Bose (8 repro)"),
        Rec("J12 (Gen 3)", "2021-sucasnost", "Zakladny (6 repro)", "Bose Premium (10 repro)") >>) >>,
      <<"X-Trail", List(<<
        Rec("T32 (Gen 3)", "2013-2021", "Zakladny (6 repro)", "Bose (8 repro)") >>) >> >>) >>,
    <<"Mazda", DictLiteral(<<
      <<"Mazda 3", List(<<
        Rec("BM/BN (Gen 3)", "2013-2018", "Zakladny (4 alebo 6 repro)", "Bose Centerpoint 2 (9 repro)"),
        Rec("BP (Gen 4)", "2019-sucasnost", "Mazda Harmonic Acoustics (8 repro)", "Bose (12 repro)") >>) >>,
      <<"Mazda 6", List(<<
        Rec("GJ/GL (Gen 3)", "2012-sucasnost", "Zakladny (4 alebo 6 repro)", "Bose Centerpoint 2 (11 repro)") >>) >>,
      <<"CX-5", List(<<
        Rec("KE (Gen 1)", "2012-2017", "Zakladny (6 repro)", "Bose (9 repro)"),
        Rec("KF (Gen 2)", "2017-sucasnost", "Zakladny (6 repro)", "Bose (10 repro)") >>) >> >>) >>,
    <<"Subaru", DictLiteral(<<
      <<"Outback", List(<<
        Rec("BS (Gen 5)", "2014-2019", "Zakladny (6 repro)", "Harman Kardon (12 repro)") >>) >>,
      <<"Forester", List(<<
        Rec("SJ (Gen 4)", "2012-2018", "Zakladny (4 alebo 6 repro)", "Harman Kardon (8 repro)") >>) >> >>) >>,
    <<"Mitsubishi", DictLiteral(<<
      <<"ASX", List(<<
        Rec("Gen 1 (viacero faceliftov)", "2010-sucasnost", "Zakladny (4 alebo 6 repro)", "Rockford Fosgate (9 repro, 710W)") >>) >>,
      <<"Outlander", List(<<
        Rec("Gen 3 (PHEV v EU)", "2012-2021", "Zakladny (6 repro)", "Rockford Fosgate (9 repro, 710W)") >>) >> >>) >>,
    <<"Suzuki", DictLiteral(<<
      <<"Vitara", List(<<
        Rec("Gen 4", "2015-sucasnost", "Zakladny (4 repro)", "Rozsireny system (6 repro, 2x tweeter)") >>) >>,
      <<"S-Cross", List(<<
        Rec("Gen 2", "2013-2021", "Zakladny (4 repro)", "Rozsireny system (6 repro)") >>) >> >>) >>,
    <<"Hyundai", DictLiteral(<<
      <<"i20", List(<<
        Rec("Gen 2 (GB)", "2014-2020", "Zakladny (4-6 repro)", "Ziaden znackovy premiovy system"),
        Rec("Gen 3 (BC3)", "2020-sucasnost", "Zakladny (6 repro)", "Bose Premium Sound (8 repro)") >>) >>,
      <<"i30", List(<<
        Rec("GD (Gen 2)", "2012-2017", "Zakladny (4 alebo 6 repro)", "Priplatkovy system (6 repro + zosilnovac)"),
        Rec("PD (Gen 3)", "2017-sucasnost", "Zakladny (4 alebo 6 repro)", "Ziaden znackovy premiovy system (na vacsine EU trhov)") >>) >>,
      <<"Tucson", List(<<
        Rec("ix35 (Gen 2)", "2009-2015", "Zakladny (6 repro)", "Infinity Premium Sound (7 repro)"),
        Rec("TL (Gen 3)", "2015-2020", "Zakladny (6 repro)", "Infinity Premium Sound (8 repro)"),
        Rec("NX4 (Gen 4)", "2020-sucasnost", "Zakladny (6 repro)", "Krell Premium Sound (8 repro)") >>) >>,
      <<"Santa Fe", List(<<
        Rec("Gen 3 (DM)", "2012-2018", "Zakladny (6 repro)", "Infinity Premium Sound (10 repro)"),
        Rec("Gen 4 (TM)", "2018-sucasnost", "Zakladny (6 repro)", "Krell Premium Sound (10 repro)") >>) >> >>) >>,
    <<"Kia", DictLiteral(<<
      <<"Ceed", List(<<
        Rec("JD (Gen 2)", "2012-2018", "Zakladny (6 repro)", "Infinity Premium Sound (7 repro, na niektorych trhoch)"),
        Rec("CD (Gen 3)", "2018-sucasnost", "Zakladny (6 repro)", "JBL Premium Sound (8 repro)") >>) >>,
      <<"Sportage", List(<<
        Rec("SL (Gen 3)", "2010-2015", "Zakladny (6 repro)", "Infinity Premium Sound (7 repro)"),
        Rec("QL (Gen 4)", "2016-2021", "Zakladny (6 repro)", "JBL Premium Sound (8 repro)"),
        Rec("NQ5 (Gen 5)", "2021-sucasnost", "Zakladny (6 repro)", "Harman Kardon Premium Sound (8 repro)") >>) >>,
      <<"Sorento", List(<<
        Rec("Gen 2 (XM Facelift)", "2012-2014", "Zakladny (6 repro)", "Infinity Premium Sound (10 repro)"),
        Rec("Gen 3 (UM)", "2015-2020", "Zakladny (6 repro)", "Infinity Premium Sound (10 repro)"),
        Rec("Gen 4 (MQ4)", "2020-sucasnost", "Zakladny (6 repro)", "Bose Premium Sound (12 repro)") >>) >> >>) >>,
    <<"Genesis", DictLiteral(<<
      <<"G70", List(<<
        Rec("Gen 1", "2017-sucasnost (vstup do EU cca 2021)", "Zakladny (9 repro)", "Lexicon (15 repro)") >>) >>,
      <<"GV80", List(<<
        Rec("Gen 1", "2020-sucasnost (vstup do EU cca 2021)", "Genesis Premium (12 repro)", "Lexicon (21 repro)") >>) >> >>) >>
  >>)

\* main.py lines 326-419
stray_block_1 ==
  DictLiteral(<<
    <<"Peugeot", DictLiteral(<<
      <<"208", List(<<
        Rec("Gen 1", "2012-2019", "Zakladny (4-6 repro)", "JBL Hi-Fi (8 repro)"),
        Rec("Gen 2", "2019-sucasnost", "Zakladny (6 repro)", "Focal (10 repro) - (menej caste)") >>) >>,
      <<"308", List(<<
        Rec("T9 (Gen 2)", "2013-2021", "Zakladny (6 repro)", "Denon Hi-Fi (9 repro)"),
        Rec("P5 (Gen 3)", "2021-sucasnost", "Zakladny (6 repro)", "Focal Premium Hi-Fi (10 repro)") >>) >>,
      <<"3008", List(<<
        Rec("Gen 1", "2008-2016", "Zakladny (6 repro)", "JBL Hi-Fi (8 repro)"),
        Rec("Gen 2", "2016-sucasnost", "Zakladny (8 repro)", "Focal Premium Hi-Fi (10 repro)") >>) >>,
      <<"508", List(<<
        Rec("Gen 1", "2011-2017", "Zakladny (8 repro)", "JBL Hi-Fi (10 repro)"),
        Rec("Gen 2", "2018-sucasnost", "Zakladny (8 repro)", "Focal Premium Hi-Fi (10 repro)") >>) >> >>) >>,
    <<"Citroen", DictLiteral(<<
      <<"C3", List(<<
        Rec("Gen 3", "2016-sucasnost", "Zakladny (4-6 repro)", "Ziaden znackovy premiovy system") >>) >>,
      <<"C4", List(<<
        Rec("Gen 2", "2010-2018", "Zakladny (6 repro)", "Denon Hi-Fi (9 repro, s DSP)"),
        Rec("Gen 3", "2020-sucasnost", "Zakladny (6 repro)", "Hi-Fi System (8 repro s Arkamys processing)") >>) >>,
      <<"C5 Aircross", List(<<
        Rec("Gen 1", "2017-sucasnost", "Zakladny (6 repro)", "Citroen HiFi System (8 repro, Arkamys)") >>) >> >>) >>,
    <<"DS Automobiles", DictLiteral(<<
      <<"DS 4", List(<<
        Rec("Gen 2", "2021-sucasnost", "Zakladny (8 repro)", "Focal Electra (14 repro)") >>) >>,
      <<"DS 7 Crossback", List(<<
        Rec("Gen 1", "2017-sucasnost", "Zakladny (8 repro, Arkamys)", "Focal Electra (14 repro, 515W)") >>) >> >>) >>,
    <<"Opel", DictLiteral(<<
      <<"Corsa", List(<<
        Rec("E", "2014-2019", "Zakladny (4-6 repro)", "Ziaden znackovy premiovy system"),
        Rec("F", "2019-sucasnost", "Zakladny (4-6 repro)", "Ziaden znackovy premiovy system") >>) >>,
      <<"Astra", List(<<
        Rec("J (Facelift)", "2012-2015", "Zakladny (6 repro)", "Infinity Sound System (7 repro)"),
        Rec("K", "2015-2021", "Zakladny (6 repro)", "Bose (7 repro)"),
        Rec("L", "2021-sucasnost", "Zakladny (6 repro)", "Hi-Fi Sound System (8 repro) (Neznackovy)") >>) >>,
      <<"Insignia", List(<<
        Rec("A (Facelift)", "2013-2017", "Zakladny (7 repro)", "Bose (9 repro)"),
        Rec("B", "2017-2023", "Zakladny (7 repro)", "Bose (8 repro)") >>) >> >>) >>,
    <<"Fiat", DictLiteral(<<
      <<"500", List(<<
        Rec("Moderny (Facelift)", "2016-sucasnost (spalovaci)", "Zakladny (4-6 repro)", "BeatsAudio (7 repro, 440W)"),
        Rec("500e (Elektricky)", "2020-sucasnost", "Zakladny (4 repro)", "JBL Premium Audio (7 repro)") >>) >>,
      <<"Tipo", List(<<
        Rec("Aegae", "2015-sucasnost", "Uconnect (4 alebo 6 repro)", "Ziaden znackovy premiovy system") >>) >> >>) >>,
    <<"Alfa Romeo", DictLiteral(<<
      <<"Giulia", List(<<
        Rec("952", "2016-sucasnost", "Zakladny (8 repro)", "Harman Kardon (14 repro, 900W)") >>) >>,
      <<"Stelvio", List(<<
        Rec("949", "2017-sucasnost", "Zakladny (8 repro)", "Harman Kardon (14 repro, 900W)") >>) >>,
      <<"Tonale", List(<<
        Rec("Gen 1", "2022-sucasnost", "Zakladny (6 repro)", "Harman Kardon (14 repro)") >>) >> >>) >>,
    <<"Maserati", DictLiteral(<<
      <<"Ghibli", List(<<
        Rec("M157", "2013-sucasnost", "Zakladny (8 repro)", "Harman Kardon (10 repro, 900W) ALEBO Bowers & Wilkins (15 repro, 1280W)") >>) >> >>) >>,
    <<"Jeep", DictLiteral(<<
      <<"Renegade", List(<<
        Rec("Gen 1", "2014-sucasnost", "Zakladny (6 repro)", "BeatsAudio (9 repro, 506W)") >>) >>,
      <<"Compass", List(<<
        Rec("MP", "2017-sucasnost", "Zakladny (6 repro)", "BeatsAudio (9 repro, 506W)") >>) >> >>) >>
  >>)

\* main.py lines 420-509
stray_block_2 ==
  DictLiteral(<<
    <<"Renault", DictLiteral(<<
      <<"Clio", List(<<
        Rec("Gen 4", "2012-2019", "Zakladny (4 repro) alebo R-Link (6 repro)", "Bose Sound System (7 repro)"),
        Rec("Gen 5", "2019-sucasnost", "Zakladny (6 repro)", "Bose Sound System (9 repro)") >>) >>,
      <<"Megane", List(<<
        Rec("Gen 3 (Facelift)", "2012-2016", "Zakladny (4-6 repro)", "Bose Sound System (9 repro)"),
        Rec("Gen 4 (Spalovaci)", "2016-2023", "Zakladny (4-8 repro)", "Bose Sound System (9 repro)"),
        Rec("Megane E-Tech (Elektricky)", "2022-sucasnost", "Arkamys (6 repro)", "Harman Kardon (9 repro, 410W)") >>) >>,
      <<"Captur", List(<<
        Rec("Gen 1", "2013-2019", "Zakladny (4-6 repro)", "Bose Sound System (7 repro)"),
        Rec("Gen 2", "2019-sucasnost", "Zakladny (6 repro)", "Bose Sound System (9 repro)") >>) >>,
      <<"Austral", List(<<
        Rec("Gen 1", "2022-sucasnost", "Arkamys (8 repro)", "Harman Kardon (12 repro)") >>) >> >>) >>,
    <<"Dacia", DictLiteral(<<
      <<"Duster", List(<<
        Rec("Gen 1 (Facelift)", "2013-2017", "Zakladny (2-4 repro)", "Media Nav (4 repro)"),
        Rec("Gen 2", "2017-2023", "Zakladny (4 repro)", "Media Nav (6 repro)") >>) >>,
      <<"Sandero", List(<<
        Rec("Gen 2", "2012-2020", "Zakladny (2-4 repro)", "Media Nav (4 repro)"),
        Rec("Gen 3", "2020-sucasnost", "Zakladny (4 repro)", "Media Nav (6 repro)") >>) >> >>) >>,
    <<"Volvo", DictLiteral(<<
      <<"S60/V60", List(<<
        Rec("Gen 2", "2010-2018", "High Performance (8 repro)", "Harman Kardon (12 repro)"),
        Rec("Gen 3", "2019-sucasnost", "High Performance (10 repro)", "Harman Kardon (14 repro) ALEBO Bowers & Wilkins (15 repro)") >>) >>,
      <<"S90/V90", List(<<
        Rec("Gen 2", "2016-sucasnost", "High Performance (10 repro)", "Harman Kardon (14 repro) ALEBO Bowers & Wilkins (19 repro)") >>) >>,
      <<"XC60", List(<<
        Rec("Gen 1", "2008-2017", "High Performance (8 repro)", "Harman Kardon (12 repro)"),
        Rec("Gen 2", "2017-sucasnost", "High Performance (10 repro)", "Harman Kardon (14 repro) ALEBO Bowers & Wilkins (15 repro)") >>) >>,
      <<"XC90", List(<<
        Rec("Gen 2", "2015-sucasnost", "High Performance (10 repro)", "Harman Kardon (14 repro) ALEBO Bowers & Wilkins (19 repro)") >>) >> >>) >>,
    <<"Ford", DictLiteral(<<
      <<"Fiesta", List(<<
        Rec("Mk7", "2008-2017", "Zakladny (4-6 repro)", "Sony (8 repro)"),
        Rec("Mk8", "2017-2023", "Zakladny (6 repro)", "B&O Play (10 repro)") >>) >>,
      <<"Focus", List(<<
        Rec("Mk3", "2011-2018", "Zakladny (6 repro)", "Sony (10 repro)"),
        Rec("Mk4", "2018-sucasnost", "Zakladny (6 repro)", "B&O Play (10 repro)") >>) >>,
      <<"Kuga", List(<<
        Rec("Gen 2", "2012-2019", "Zakladny (6 repro)", "Sony (10 repro)"),
        Rec("Gen 3", "2019-sucasnost", "Zakladny (6 repro)", "B&O Play (10 repro)") >>) >> >>) >>,
    <<"Jaguar", DictLiteral(<<
      <<"XE", List(<<
        Rec("X760", "2015-sucasnost", "Jaguar Sound (6 repro, 80W)", "Meridian Sound (11 repro, 380W) ALEBO Meridian Surround (17 repro, 825W)") >>) >>,
      <<"F-Pace", List(<<
        Rec("X761", "2016-sucasnost", "Jaguar Sound (8 repro)", "Meridian Sound (11 repro, 380W) ALEBO Meridian Surround (17 repro, 825W)") >>) >> >>) >>,
    <<"Land Rover", DictLiteral(<<
      <<"Range Rover Evoque", List(<<
        Rec("L538 (Gen 1)", "2011-2018", "Land Rover Sound (8 repro)", "Meridian Sound (11 repro, 380W) ALEBO Meridian Surround (17 repro, 825W)"),
        Rec("L551 (Gen 2)", "2019-sucasnost", "Zakladny (6 repro) alebo Sound System (10 repro, 180W)", "Meridian Sound (14 repro, 400W) ALEBO Meridian Surround (16 repro, 650W)") >>) >>,
      <<"Defender", List(<<
        Rec("L663", "2020-sucasnost", "Zakladny (6 repro)", "Meridian Sound (10 repro, 400W) ALEBO Meridian Surround (14 repro, 700W)") >>) >> >>) >>,
    <<"Mini", DictLiteral(<<
      <<"Cooper (Hatch)", List(<<
        Rec("F56 (Gen 3)", "2014-sucasnost", "Zakladny (4 alebo 6 repro)", "Harman Kardon (12 repro)") >>) >>,
      <<"Countryman", List(<<
        Rec("F60 (Gen 2)", "2017-sucasnost", "Zakladny (6 repro)", "Harman Kardon (12 repro)") >>) >> >>) >>
  >>)

(***************************************************************************)
(* The text of main.py as its top-level chunks, in file order.  Lines     *)
(* 326-419 and 420-509 are not statements: 326 opens with an indented     *)
(* `,"Peugeot": {` after the `}` of line 325 that closes                  *)
(* german_premium_data, and 420 goes on with `"Renault": {` after the     *)
(* `}` of line 419.  The brands written there belong to no mapping.       *)
(***************************************************************************)
Assign(name, value) == [op |-> "assign", name |-> name, value |-> value]
PrintStmt(text) == [op |-> "print", text |-> text]
Unparseable(line, brands) == [op |-> "unparseable", line |-> line, brands |-> brands]

main_py ==
  << Assign("auto_audio_db", DictLiteral(<<>>)),
     PrintStmt("Core databaza inicializovana."),
     Assign("vag_group_data", vag_group_data),
     Assign("german_premium_data", german_premium_data),
     Unparseable(326, stray_block_1),
     Unparseable(420, stray_block_2) >>

\* main.py up to line 325, the part of it that is well-formed Python
main_py_head == SubSeq(main_py, 1, 4)

\* the brand keys written in a text of main.py: those of the two data
\* literals and those of the chunks that are not statements
BrandLiterals == {"vag_group_data", "german_premium_data"}
AuthoredBrands(src) ==
  UNION {Keys(src[i].value) :
           i \in {j \in 1..Len(src) : src[j].op = "assign" /\ src[j].name \in BrandLiterals}}
    \cup UNION {Keys(src[i].brands) :
                  i \in {j \in 1..Len(src) : src[j].op = "unparseable"}}

(***************************************************************************)
(* Exceptions: a class name with the classes it is an instance of, and    *)
(* the text str(e).  The requests classes are those of                     *)
(* requests.exceptions, where RequestException derives from IOError:       *)
(* ConnectTimeout derives from both ConnectionError and Timeout,           *)
(* ReadTimeout from Timeout only.                                          *)
(***************************************************************************)
RequestBases == {"RequestException", "OSError", "Exception"}

Bases(cls) ==
  CASE cls = "ConnectionError" -> {"ConnectionError"} \cup RequestBases
    [] cls = "ConnectTimeout" ->
         {"ConnectTimeout", "ConnectionError", "Timeout"} \cup RequestBases
    [] cls = "ReadTimeout" -> {"ReadTimeout", "Timeout"} \cup RequestBases
    [] cls = "TooManyRedirects" -> {"TooManyRedirects"} \cup RequestBases
    [] cls = "JSONDecodeError" ->
         {"JSONDecodeError", "InvalidJSONError", "ValueError"} \cup RequestBases
    [] cls = "AttributeError" -> {"AttributeError", "Exception"}
    [] cls = "TypeError" -> {"TypeError", "Exception"}
    [] cls = "KeyError" -> {"KeyError", "Exception"}
    [] cls = "IndentationError" -> {"IndentationError", "SyntaxError", "Exception"}
    [] cls = "ImportError" -> {"ImportError", "Exception"}
    [] cls = "PermissionError" -> {"PermissionError", "OSError", "Exception"}
    [] cls = "OSError" -> {"OSError", "Exception"}

Exc(cls, text) == [cls |-> cls, text |-> text]
NoExc == [cls |-> "none", text |-> ""]
IsInstance(e, cls) == e.cls # "none" /\ cls \in Bases(e.cls)

(***************************************************************************)
(* Loading a module: Python compiles the whole file before it runs any    *)
(* statement, so a chunk that does not parse raises a SyntaxError (for    *)
(* an indented line after a closed statement, its subclass                *)
(* IndentationError) with nothing executed; otherwise the statements run  *)
(* in order.                                                               *)
(***************************************************************************)
Parses(src) == \A i \in 1..Len(src) : src[i].op # "unparseable"

FirstBadLine(src) ==
  src[CHOOSE i \in 1..Len(src) :
        /\ src[i].op = "unparseable"
        /\ \A j \in 1..(i - 1) : src[j].op # "unparseable"].line

\* the module namespace and the lines printed by running the statements
RECURSIVE ExecModule(_, _, _)
ExecModule(src, ns, printed) ==
  IF src = <<>> THEN [ns |-> ns, printed |-> printed]
  ELSE LET s == Head(src) IN
       IF s.op = "assign"
         THEN ExecModule(Tail(src), DictSet(ns, s.name, s.value), printed)
         ELSE ExecModule(Tail(src), ns, Append(printed, s.text))

\* `from main import auto_audio_db`: the exception raised (NoExc if none),
\* the value bound and the lines the module printed
ImportMain(src) ==
  IF ~Parses(src)
    THEN [exc |-> Exc("IndentationError", "unexpected indent"),
          line |-> FirstBadLine(src),
          value |-> None, printed |-> <<>>]
    ELSE LET m == ExecModule(src, Dict(<<>>), <<>>) IN
         IF "auto_audio_db" \in Keys(m.ns)
           THEN [exc |-> NoExc, line |-> 0,
                 value |-> Item(m.ns, "auto_audio_db"), printed |-> m.printed]
           ELSE [exc |-> Exc("ImportError", "cannot import name 'auto_audio_db'"),
                 line |-> 0, value |-> None, printed |-> m.printed]

(***************************************************************************)
(* json: texts are sequences of tokens.                                    *)
(***************************************************************************)
Tok(k) == [k |-> k]
TStr(s) == [k |-> "str", s |-> s]
TInt(n) == [k |-> "int", n |-> n]
\* a line break followed by n spaces
TNl(n) == [k |-> "nl", n |-> n]
TWord(s) == [k |-> "word", s |-> s]

\* json.dumps(v, ensure_ascii=False, indent=indent); indent -1 is indent=None.
\* Without indent the separators are ", " and ": "; with indent they are
\* "," followed by a line break and ": ", and every non-empty container
\* breaks the line after its opening and before its closing bracket.
NoIndent == -1
ItemSep(indent, level) ==
  IF indent = NoIndent THEN <<Tok(","), Tok(" ")>> ELSE <<Tok(","), TNl(indent * level)>>
Open(indent, level) == IF indent = NoIndent THEN <<>> ELSE <<TNl(indent * level)>>

RECURSIVE Dumps(_, _, _), DumpPairs(_, _, _), DumpItems(_, _, _)
RECURSIVE DumpItems_reversed(_, _, _)
Dumps(v, indent, level) ==
  CASE v.t = "str" -> <<TStr(v.s)>>
    [] v.t = "int" -> <<TInt(v.n)>>
    [] v.t = "None" -> <<Tok("null")>>
    [] v.t = "list" ->
         IF v.items = <<>> THEN <<Tok("["), Tok("]")>>
         ELSE <<Tok("[")>> \o Open(indent, level + 1)
                \o DumpItems(v.items, indent, level + 1)
                \o Open(indent, level) \o <<Tok("]")>>
    [] v.t = "dict" ->
         IF v.pairs = <<>> THEN <<Tok("{"), Tok("}")>>
         ELSE <<Tok("{")>> \o Open(indent, level + 1)
                \o DumpPairs(v.pairs, indent, level + 1)
                \o Open(indent, level) \o <<Tok("}")>>

\* the items written last to first
DumpItems_reversed(items, indent, level) ==
  Dumps(items[Len(items)], indent, level)
    \o (IF Len(items) = 1 THEN <<>>
        ELSE ItemSep(indent, level)
               \o DumpItems_reversed(SubSeq(items, 1, Len(items) - 1), indent, level))

DumpItems(items, indent, level) ==
  Dumps(Head(items), indent, level)
    \o (IF Tail(items) = <<>> THEN <<>>
        ELSE ItemSep(indent, level) \o DumpItems(Tail(items), indent, level))

DumpPairs(pairs, indent, level) ==
  <<TStr(Head(pairs)[1]), Tok(":"), Tok(" ")>> \o Dumps(Head(pairs)[2], indent, level)
    \o (IF Tail(pairs) = <<>> THEN <<>>
        ELSE ItemSep(indent, level) \o DumpPairs(Tail(pairs), indent, level))

\* json.loads(text): a recursive-descent reading of the tokens.  A result is
\* [ok, v, i]: whether a value was read, the value, the next position.
RECURSIVE SkipWs(_, _)
SkipWs(ts, i) ==
  IF i <= Len(ts) /\ ts[i].k \in {" ", "nl"} THEN SkipWs(ts, i + 1) ELSE i

ParseFail == [ok |-> FALSE, v |-> None, i |-> 0]
\* the member of a set of one member: `The({e(x) : x \in {v}})` is e(v) with
\* v worked out once, however often e uses it
The(S) == CHOOSE x \in S : TRUE
ParseOk(v, i) == [ok |-> TRUE, v |-> v, i |-> i]

RECURSIVE ParseValue(_, _), ParseElements(_, _, _), ParseMembers(_, _, _)
ParseValue(ts, i0) ==
  LET i == SkipWs(ts, i0) IN
  IF i > Len(ts) THEN ParseFail
  ELSE CASE ts[i].k = "str" -> ParseOk(Str(ts[i].s), i + 1)
         [] ts[i].k = "int" -> ParseOk(Num(ts[i].n), i + 1)
         [] ts[i].k = "null" -> ParseOk(None, i + 1)
         [] ts[i].k = "[" ->
              LET j == SkipWs(ts, i + 1) IN
              IF j <= Len(ts) /\ ts[j].k = "]" THEN ParseOk(List(<<>>), j + 1)
              ELSE ParseElements(ts, j, <<>>)
         [] ts[i].k = "{" ->
              LET j == SkipWs(ts, i + 1) IN
              IF j <= Len(ts) /\ ts[j].k = "}" THEN ParseOk(Dict(<<>>), j + 1)
              ELSE ParseMembers(ts, j, Dict(<<>>))
         [] OTHER -> ParseFail

ParseElements(ts, i, acc) ==
  The({ IF ~r.ok THEN ParseFail
        ELSE The({ IF j > Len(ts) THEN ParseFail
                   ELSE IF ts[j].k = "]" THEN ParseOk(List(items), j + 1)
                   ELSE IF ts[j].k = "," THEN ParseElements(ts, j + 1, items)
                   ELSE ParseFail :
                   j \in {SkipWs(ts, r.i)}, items \in {Append(acc, r.v)} }) :
        r \in {ParseValue(ts, i)} })

ParseMembers(ts, i0, acc) ==
  LET i == SkipWs(ts, i0) IN
  IF i > Len(ts) \/ ts[i].k # "str" THEN ParseFail
  ELSE LET c == SkipWs(ts, i + 1) IN
       IF c > Len(ts) \/ ts[c].k # ":" THEN ParseFail
       ELSE The({ IF ~r.ok THEN ParseFail
                  ELSE The({ IF j > Len(ts) THEN ParseFail
                             ELSE IF ts[j].k = "}" THEN ParseOk(d, j + 1)
                             ELSE IF ts[j].k = "," THEN ParseMembers(ts, j + 1, d)
                             ELSE ParseFail :
                             j \in {SkipWs(ts, r.i)},
                             d \in {DictSet(acc, ts[i].s, r.v)} }) :
                  r \in {ParseValue(ts, c + 1)} })

\* [ok, v]: ok is FALSE where json.loads raises JSONDecodeError
Loads(ts) ==
  The({ IF r.ok /\ SkipWs(ts, r.i) = Len(ts) + 1
          THEN [ok |-> TRUE, v |-> r.v]
          ELSE [ok |-> FALSE, v |-> None] :
        r \in {ParseValue(ts, 1)} })

(***************************************************************************)
(* The environment of one execution.                                       *)
(***************************************************************************)
\* catalogs a well-formed main module may bind to auto_audio_db
CatalogBrands == {"Skoda", "BMW"}
GenRecord == Rec("Gen 3 (5E)", "2012-2019", "Zakladny (4-8 repro)", "Canton Sound System (10 repro)")
GenLists == {[i \in 1..n |-> GenRecord] : n \in 0..MaxGens}
ModelDicts == {Dict(<<>>)} \cup {Dict(<< <<"Octavia", List(g)>> >>) : g \in GenLists}
Catalogs ==
  {Dict(<<>>)}
    \cup {Dict(<< <<b, m>> >>) : b \in CatalogBrands, m \in ModelDicts}
    \cup {Dict(<< <<b[1], m1>>, <<b[2], m2>> >>) :
            b \in {p \in CatalogBrands \X CatalogBrands : p[1] # p[2]},
            m1 \in ModelDicts, m2 \in ModelDicts}

\* the texts of the module `main` on the import path: main.py as shipped,
\* its well-formed head, a module that binds auto_audio_db to a catalog, and
\* a module that binds no auto_audio_db
MainModules ==
  {main_py, main_py_head, <<>>}
    \cup {<<Assign("auto_audio_db", c)>> : c \in Catalogs}

\* auto_audio_db.json before the execution: absent, or left by an earlier run
NoFile == [exists |-> FALSE, content |-> <<>>]
File(content) == [exists |-> TRUE, content |-> content]
InitialFiles == {NoFile, File(<<Tok("{"), Tok("}")>>)}

\* bodies of a 200 response: JSON objects with any subset of the count
\* fields and any of the errors values, other JSON values, and texts that
\* are not JSON
CountFields == <<"brands", "models", "created", "updated", "skipped">>
ErrorList(n) == List([i \in 1..n |-> Str("error " \o ToString(i))])
ErrorsValues ==
  {ErrorList(n) : n \in 0..MaxErrors}
    \cup {None, Num(0), Num(2), Str(""), Str("boom"), Dict(<<>>),
          Dict(<< <<"row", Num(1)>> >>)}

RECURSIVE CountPairs(_, _)
CountPairs(present, i) ==
  IF i > Len(CountFields) THEN <<>>
  ELSE (IF CountFields[i] \in present THEN << <<CountFields[i], Num(3)>> >> ELSE <<>>)
         \o CountPairs(present, i + 1)

Range(s) == {s[i] : i \in 1..Len(s)}

ResponseObjects ==
  {Dict(CountPairs(present, 1)) : present \in SUBSET Range(CountFields)}
    \cup {Dict(Append(CountPairs(present, 1), <<"errors", e>>)) :
            present \in SUBSET Range(CountFields), e \in ErrorsValues}

OkBodies ==
  {Dumps(v, NoIndent, 0) :
     v \in ResponseObjects \cup {List(<<>>), Str("ok"), Num(1), None}}
    \cup {<<>>, <<TWord("OK")>>, <<Tok("{"), TStr("brands"), Tok(":")>>}

\* responses with another status: the body is not read as JSON
ErrorStatuses == {201, 404, 500}
ErrorBodies == {<<TStr("internal error")>>, <<TWord("Not"), Tok(" "), TWord("Found")>>, <<>>}

Responses ==
  {[status_code |-> 200, text |-> b] : b \in OkBodies}
    \cup {[status_code |-> s, text |-> b] : s \in ErrorStatuses, b \in ErrorBodies}
NoResponse == [status_code |-> 0, text |-> <<>>]

\* what requests.post raises instead of returning a response
PostExceptions ==
  {Exc("ConnectionError", "Connection refused"),
   Exc("ConnectTimeout", "Connection to localhost timed out"),
   Exc("ReadTimeout", "Read timed out. (read timeout=30)"),
   Exc("TooManyRedirects", "Exceeded 30 redirects")}

(***************************************************************************)
(* python/send_to_api.py                                                   *)
(***************************************************************************)
API_URL == "http://localhost:3000/api/vehicle-speakers/import"
DefaultFilename == "auto_audio_db.json"

\* one printed line: which print statement, and the value it formats
Line(k, a) == [k |-> k, a |-> a]

\* an entry of the history of raised exceptions
Raised(at, e) == [at |-> at, exc |-> e]

VARIABLES
  pc,             \* where the script is
  mainModule,     \* the text of the module `main` (environment)
  auto_audio_db,  \* the name imported from main, None until bound
  out,            \* the lines printed so far
  posts,          \* the calls of requests.post so far, each with its arguments
  response,       \* what requests.post returned
  exc,            \* the exception being raised
  ret,            \* what send_to_tunexa returned: "none", "True", "False"
  success,        \* the variable success of __main__: "unset", "True", "False"
  exports,        \* the calls of export_to_json_file so far, each with its arguments
  file,           \* auto_audio_db.json in the working directory
  data,           \* the argument send_to_tunexa was called with, None before the call
  raised,         \* history: every exception raised so far with the place that
                  \* raised it, in order
  file0           \* history: auto_audio_db.json as the execution found it

vars == <<pc, mainModule, auto_audio_db, out, posts, response, exc, ret, success,
          exports, file, data, raised, file0>>

Init ==
  /\ pc = "import"
  /\ mainModule \in MainModules
  /\ auto_audio_db = None
  /\ out = <<>>
  /\ posts = <<>>
  /\ response = NoResponse
  /\ exc = NoExc
  /\ ret = "none"
  /\ success = "unset"
  /\ exports = <<>>
  /\ file \in InitialFiles
  /\ data = None
  /\ raised = <<>>
  /\ file0 = file

\* the import failure answered with an empty catalog instead of SystemExit
Startup_default ==
  /\ pc = "import"
  /\ LET m == ImportMain(mainModule) IN
     /\ pc' = "main"
     /\ out' = out \o [i \in 1..Len(m.printed) |-> Line("main", Str(m.printed[i]))]
     /\ auto_audio_db' = IF IsInstance(m.exc, "Exception") THEN Dict(<<>>) ELSE m.value
     /\ raised' = IF IsInstance(m.exc, "Exception")
                    THEN Append(raised, Raised("import", m.exc)) ELSE raised
  /\ UNCHANGED <<mainModule, posts, response, exc, ret, success, exports, file, data, file0>>

\* lines 9-12: try: from main import auto_audio_db
\*             except Exception as e: raise SystemExit(f"...: {e}")
Startup ==
  /\ pc = "import"
  /\ LET m == ImportMain(mainModule) IN
     IF IsInstance(m.exc, "Exception")
       THEN /\ pc' = "aborted"
            /\ out' = (out \o [i \in 1..Len(m.printed) |-> Line("main", Str(m.printed[i]))])
                        \o <<Line("SystemExit", Str(m.exc.text))>>
            /\ raised' = Append(raised, Raised("import", m.exc))
            /\ UNCHANGED auto_audio_db
       ELSE /\ pc' = "main"
            /\ out' = out \o [i \in 1..Len(m.printed) |-> Line("main", Str(m.printed[i]))]
            /\ auto_audio_db' = m.value
            /\ UNCHANGED raised
  /\ UNCHANGED <<mainModule, posts, response, exc, ret, success, exports, file, data, file0>>

\* send_to_tunexa storing a key into data, which is the catalog object itself
SendBegin_tagging ==
  /\ pc = "main"
  /\ data' = DictSet(auto_audio_db, "source", Str("python"))
  /\ auto_audio_db' = data'
  /\ out' = out \o <<Line("banner", None), Line("option1", None),
                     Line("sending", Num(PyLen(auto_audio_db)))>>
  /\ pc' = "post"
  /\ UNCHANGED <<mainModule, posts, response, exc, ret, success, exports, file, raised,
                 file0>>

\* lines 62-66: the banner, "Option 1", and the call send_to_tunexa(auto_audio_db);
\* line 20: print(f"Sending {len(data)} brands to Tunexa API...")
SendBegin ==
  /\ pc = "main"
  /\ data' = auto_audio_db
  /\ out' = out \o <<Line("banner", None), Line("option1", None),
                     Line("sending", Num(PyLen(auto_audio_db)))>>
  /\ pc' = "post"
  /\ UNCHANGED <<mainModule, auto_audio_db, posts, response, exc, ret, success,
                 exports, file, raised, file0>>

\* lines 21-26: the arguments of requests.post
PostRequest(d) ==
  [url |-> API_URL,
   headers |-> Dict(<< <<"Content-Type", Str("application/json")>> >>),
   data |-> Dumps(d, NoIndent, 0),
   timeout |-> 30]

\* lines 21-26: response = requests.post(...): a response, or an exception
Post ==
  /\ pc = "post"
  /\ posts' = Append(posts, PostRequest(data))
  /\ \/ /\ \E r \in Responses : response' = r
        /\ pc' = "status"
        /\ UNCHANGED <<exc, raised>>
     \/ /\ \E e \in PostExceptions : exc' = e /\ raised' = Append(raised, Raised("post", e))
        /\ pc' = "except"
        /\ UNCHANGED response
  /\ UNCHANGED <<mainModule, auto_audio_db, out, ret, success, exports, file, data, file0>>

\* the errors section listing every error: result['errors'] without [:5]
ErrorsSection_all(result) ==
  The({
    IF ~Truthy(errors) THEN {[printed |-> <<>>, exc |-> NoExc]}
    ELSE IF ~HasLen(errors)
      THEN {[printed |-> <<>>, exc |-> Exc("TypeError", "object has no len()")]}
    ELSE LET count == <<Line("errors", Num(PyLen(errors)))>> IN
         CASE errors.t = "list" ->
                {[printed |-> count \o [i \in 1..PyLen(errors) |->
                                          Line("error_item", errors.items[i])],
                  exc |-> NoExc]}
           [] errors.t = "str" ->
                {[printed |-> count \o [i \in 1..PyLen(errors) |->
                                          Line("error_item", Str(SubSeq(errors.s, i, i)))],
                  exc |-> NoExc]}
           [] errors.t = "dict" ->
                {[printed |-> count \o [i \in 1..PyLen(errors) |->
                                          Line("error_item", Str(errors.pairs[i][1]))],
                  exc |-> NoExc]} :
    errors \in {Get(result, "errors", None)} })

\* lines 36-39: if result.get('errors'): the count and the first five errors
ErrorsSection(result) ==
  The({
    IF ~Truthy(errors) THEN {[printed |-> <<>>, exc |-> NoExc]}
    ELSE IF ~HasLen(errors)
      THEN {[printed |-> <<>>, exc |-> Exc("TypeError", "object has no len()")]}
    ELSE LET count == <<Line("errors", Num(PyLen(errors)))>>
             shown == IF PyLen(errors) < 5 THEN PyLen(errors) ELSE 5 IN
         CASE errors.t = "list" ->
                {[printed |-> count \o [i \in 1..shown |-> Line("error_item", errors.items[i])],
                  exc |-> NoExc]}
           [] errors.t = "str" ->
                {[printed |-> count \o [i \in 1..shown |->
                                          Line("error_item", Str(SubSeq(errors.s, i, i)))],
                  exc |-> NoExc]}
           \* a dict is not sliceable: TypeError (unhashable slice) up to
           \* Python 3.11, KeyError from 3.12 on
           [] errors.t = "dict" ->
                {[printed |-> count, exc |-> Exc(c, "slice(None, 5, None)")] :
                   c \in {"TypeError", "KeyError"}} :
    errors \in {Get(result, "errors", None)} })

\* lines 30-40, for result a dict: the lines printed and the exception raised
\* (NoExc: `return True` is reached)
SummaryLines(result) ==
  LET counts ==
        << Line("import_successful", None),
           Line("brands_processed", Get(result, "brands", Num(0))),
           Line("models_processed", Get(result, "models", Num(0))),
           Line("created", Get(result, "created", Num(0))),
           Line("updated", Get(result, "updated", Num(0))),
           Line("skipped", Get(result, "skipped", Num(0))) >> IN
  {[printed |-> counts \o e.printed, exc |-> e.exc] : e \in ErrorsSection(result)}

\* the 200 branch with result['brands'] in place of result.get('brands', 0)
Summary_subscript(text) ==
  The({ IF ~parsed.ok
          THEN {[printed |-> <<>>, exc |-> Exc("JSONDecodeError", "Expecting value")]}
        ELSE IF parsed.v.t # "dict"
          THEN {[printed |-> <<Line("import_successful", None)>>,
                 exc |-> Exc("AttributeError", "object has no attribute 'get'")]}
        ELSE IF "brands" \notin Keys(parsed.v)
          THEN {[printed |-> <<Line("import_successful", None)>>,
                 exc |-> Exc("KeyError", "'brands'")]}
        ELSE SummaryLines(parsed.v) :
        parsed \in {Loads(text)} })

\* lines 29-40: the 200 branch, as the lines it prints and the exception it
\* raises (NoExc: it reaches `return True`).  Line 29 raises JSONDecodeError
\* on a body that is not JSON; line 30 is printed before line 31 calls
\* result.get, which only a dict has.
Summary(text) ==
  The({ IF ~parsed.ok
          THEN {[printed |-> <<>>, exc |-> Exc("JSONDecodeError", "Expecting value")]}
        ELSE IF parsed.v.t # "dict"
          THEN {[printed |-> <<Line("import_successful", None)>>,
                 exc |-> Exc("AttributeError", "object has no attribute 'get'")]}
        ELSE SummaryLines(parsed.v) :
        parsed \in {Loads(text)} })

\* lines 28-40: if response.status_code == 200
Status200 ==
  /\ pc = "status"
  /\ response.status_code = 200
  /\ \E s \in Summary(response.text) :
       /\ out' = out \o s.printed
       /\ exc' = s.exc
       /\ IF s.exc = NoExc
            THEN pc' = "returned" /\ ret' = "True" /\ UNCHANGED <<raised, data>>
            ELSE /\ pc' = "except"
                 /\ raised' = Append(raised, Raised("summary", s.exc))
                 /\ UNCHANGED <<ret, data>>
  /\ UNCHANGED <<mainModule, auto_audio_db, posts, response, success, exports, file, file0>>

\* the else branch taking every 2xx status for success
StatusOther_2xx ==
  /\ pc = "status"
  /\ response.status_code # 200
  /\ out' = out \o <<Line("http_error", Num(response.status_code)),
                     Line("response_text", List(response.text))>>
  /\ ret' = IF response.status_code < 300 THEN "True" ELSE "False"
  /\ pc' = "returned"
  /\ UNCHANGED <<mainModule, auto_audio_db, posts, response, exc, success, exports, file,
                 data, raised, file0>>

\* lines 41-44: else: the status code and response.text are printed
StatusOther ==
  /\ pc = "status"
  /\ response.status_code # 200
  /\ out' = out \o <<Line("http_error", Num(response.status_code)),
                     Line("response_text", List(response.text))>>
  /\ ret' = "False"
  /\ pc' = "returned"
  /\ UNCHANGED <<mainModule, auto_audio_db, posts, response, exc, success, exports, file,
                 data, raised, file0>>

\* the connection clause reporting as the generic clause does
ExceptConnectionError_generic ==
  /\ pc = "except"
  /\ IsInstance(exc, "ConnectionError")
  /\ out' = Append(out, Line("generic_error", Str(exc.text)))
  /\ exc' = NoExc
  /\ ret' = "False"
  /\ pc' = "returned"
  /\ UNCHANGED <<mainModule, auto_audio_db, posts, response, success, exports, file,
                 data, raised, file0>>

\* lines 46-49: except requests.exceptions.ConnectionError
ExceptConnectionError ==
  /\ pc = "except"
  /\ IsInstance(exc, "ConnectionError")
  /\ out' = out \o <<Line("connection_error", None), Line("run_npm_start", None)>>
  /\ exc' = NoExc
  /\ ret' = "False"
  /\ pc' = "returned"
  /\ UNCHANGED <<mainModule, auto_audio_db, posts, response, success, exports, file,
                 data, raised, file0>>

\* the generic handler retrying the request instead of returning False
ExceptException_retry ==
  /\ pc = "except"
  /\ ~IsInstance(exc, "ConnectionError")
  /\ IsInstance(exc, "Exception")
  /\ out' = Append(out, Line("generic_error", Str(exc.text)))
  /\ exc' = NoExc
  /\ pc' = "post"
  /\ UNCHANGED <<mainModule, auto_audio_db, posts, response, success, exports, file,
                 data, raised, file0, ret>>

\* the generic clause narrowed to requests.exceptions.RequestException:
\* any other exception leaves send_to_tunexa and ends the process
ExceptException_narrow ==
  /\ pc = "except"
  /\ ~IsInstance(exc, "ConnectionError")
  /\ IF IsInstance(exc, "RequestException")
       THEN /\ out' = Append(out, Line("generic_error", Str(exc.text)))
            /\ exc' = NoExc
            /\ ret' = "False"
            /\ pc' = "returned"
       ELSE /\ out' = Append(out, Line("traceback", Str(exc.cls)))
            /\ pc' = "crashed"
            /\ UNCHANGED <<exc, ret>>
  /\ UNCHANGED <<mainModule, auto_audio_db, posts, response, success, exports, file,
                 data, raised, file0>>

\* the generic clause written first, so that it also takes what the
\* connection clause is for
ExceptException_first ==
  /\ pc = "except"
  /\ IsInstance(exc, "Exception")
  /\ out' = Append(out, Line("generic_error", Str(exc.text)))
  /\ exc' = NoExc
  /\ ret' = "False"
  /\ pc' = "returned"
  /\ UNCHANGED <<mainModule, auto_audio_db, posts, response, success, exports, file,
                 data, raised, file0>>

\* lines 50-52: except Exception as e, tried after the clause of line 46
ExceptException ==
  /\ pc = "except"
  /\ ~IsInstance(exc, "ConnectionError")
  /\ IsInstance(exc, "Exception")
  /\ out' = Append(out, Line("generic_error", Str(exc.text)))
  /\ exc' = NoExc
  /\ ret' = "False"
  /\ pc' = "returned"
  /\ UNCHANGED <<mainModule, auto_audio_db, posts, response, success, exports, file,
                 data, raised, file0>>

\* if not success, with the test inverted
AfterSend_inverted ==
  /\ pc = "returned"
  /\ success' = ret
  /\ IF ret = "True"
       THEN /\ out' = Append(out, Line("option2", None))
            /\ exports' = Append(exports, [data |-> auto_audio_db,
                                           filename |-> DefaultFilename])
            /\ pc' = "open"
       ELSE /\ pc' = "done"
            /\ UNCHANGED <<out, exports>>
  /\ UNCHANGED <<mainModule, auto_audio_db, posts, response, exc, ret, file, data,
                 raised, file0>>

\* the export made unconditional
AfterSend_always ==
  /\ pc = "returned"
  /\ success' = ret
  /\ out' = Append(out, Line("option2", None))
  /\ exports' = Append(exports, [data |-> auto_audio_db, filename |-> DefaultFilename])
  /\ pc' = "open"
  /\ UNCHANGED <<mainModule, auto_audio_db, posts, response, exc, ret, file, data,
                 raised, file0>>

\* lines 66-71: success = send_to_tunexa(...); if not success: "Option 2"
\* and the call export_to_json_file(auto_audio_db)
AfterSend ==
  /\ pc = "returned"
  /\ success' = ret
  /\ IF ret = "False"
       THEN /\ out' = Append(out, Line("option2", None))
            /\ exports' = Append(exports, [data |-> auto_audio_db,
                                           filename |-> DefaultFilename])
            /\ pc' = "open"
       ELSE /\ pc' = "done"
            /\ UNCHANGED <<out, exports>>
  /\ UNCHANGED <<mainModule, auto_audio_db, posts, response, exc, ret, file, data,
                 raised, file0>>

\* the error of open caught and reported, the script going on
ExportOpen_caught ==
  /\ pc = "open"
  /\ \/ /\ file' = File(<<>>)
        /\ pc' = "dump"
        /\ UNCHANGED <<exc, out, raised>>
     \/ /\ raised' = Append(raised, Raised("open", Exc("PermissionError", "Permission denied")))
        /\ out' = Append(out, Line("generic_error", Str("Permission denied")))
        /\ pc' = "instructions"
        /\ UNCHANGED <<file, exc>>
  /\ UNCHANGED <<mainModule, auto_audio_db, posts, response, ret, success, exports, data,
                 file0>>

\* the file opened for appending, mode 'a' in place of 'w'
ExportOpen_append ==
  /\ pc = "open"
  /\ \/ /\ file' = File(file.content)
        /\ pc' = "dump"
        /\ UNCHANGED <<exc, out, raised>>
     \/ /\ exc' = Exc("PermissionError", "Permission denied")
        /\ raised' = Append(raised, Raised("open", Exc("PermissionError", "Permission denied")))
        /\ out' = Append(out, Line("traceback", Str("PermissionError")))
        /\ pc' = "crashed"
        /\ UNCHANGED file
  /\ UNCHANGED <<mainModule, auto_audio_db, posts, response, ret, success, exports, data,
                 file0>>

\* line 56: open(filename, 'w', encoding='utf-8') truncates the file, or
\* the file system refuses and nothing catches the error
ExportOpen ==
  /\ pc = "open"
  /\ \/ /\ file' = File(<<>>)
        /\ pc' = "dump"
        /\ UNCHANGED <<exc, out, raised>>
     \/ /\ exc' = Exc("PermissionError", "Permission denied")
        /\ raised' = Append(raised, Raised("open", Exc("PermissionError", "Permission denied")))
        /\ out' = Append(out, Line("traceback", Str("PermissionError")))
        /\ pc' = "crashed"
        /\ UNCHANGED file
  /\ UNCHANGED <<mainModule, auto_audio_db, posts, response, ret, success, exports, data,
                 file0>>

\* lines 57-59: json.dump(data, f, ensure_ascii=False, indent=2) writes the
\* text to the opened file, the file is closed and the two lines are
\* printed; or a write fails part-way
ExportDump ==
  /\ pc = "dump"
  /\ LET text == Dumps(exports[Len(exports)].data, 2, 0) IN
     \/ /\ file' = File(file.content \o text)
        /\ out' = out \o <<Line("exported_to", Str(exports[Len(exports)].filename)),
                           Line("copy_paste", None)>>
        /\ pc' = "instructions"
        /\ UNCHANGED <<exc, raised>>
     \/ /\ \E n \in {0, Len(text) \div 2} :
             file' = File(file.content \o SubSeq(text, 1, n))
        /\ exc' = Exc("OSError", "No space left on device")
        /\ raised' = Append(raised, Raised("dump", Exc("OSError", "No space left on device")))
        /\ out' = Append(out, Line("traceback", Str("OSError")))
        /\ pc' = "crashed"
  /\ UNCHANGED <<mainModule, auto_audio_db, posts, response, ret, success, exports, data,
                 file0>>

\* lines 72-76: the manual-import instructions
Instructions ==
  /\ pc = "instructions"
  /\ out' = out \o <<Line("then_manually", None), Line("step1", None),
                     Line("step2", None), Line("step3", None), Line("step4", None)>>
  /\ pc' = "done"
  /\ UNCHANGED <<mainModule, auto_audio_db, posts, response, exc, ret, success,
                 exports, file, data, raised, file0>>

Next ==
  \/ Startup
  \/ SendBegin
  \/ Post
  \/ Status200
  \/ StatusOther
  \/ ExceptConnectionError
  \/ ExceptException
  \/ AfterSend
  \/ ExportOpen
  \/ ExportDump
  \/ Instructions

Spec == Init /\ [][Next]_vars

\* the script is one sequential process: a step that can be taken is taken,
\* requests.post returning or raising within its timeout=30 (line 25)
\* The runs checked for termination start as those of Spec do, with the
\* catalog modules of at most one brand.
FairModules ==
  {main_py, main_py_head, <<>>}
    \cup {<<Assign("auto_audio_db", c)>> : c \in {d \in Catalogs : Len(d.pairs) <= 1}}
FairInit == Init /\ mainModule \in FairModules
FairSpec == FairInit /\ [][Next]_vars /\ WF_vars(Next)

(***************************************************************************)
(* The JSON round trip of a catalog: the two serializations the script    *)
(* makes of it (line 24 for the body of the request, line 57 for the      *)
(* file), each read back by a JSON parser as the receiver of the body or  *)
(* the reader of the file does.  The catalogs are drawn with up to two    *)
(* brands, two models and two different records.                           *)
(***************************************************************************)
GenRecord2 == Rec("Gen 4 (NX)", "2020-sucasnost", "Zakladny (8 repro)", "Canton Sound System (12 repro)")
RoundTripModels == {"Octavia", "Superb"}

RECURSIVE SeqsUpTo(_, _)
\* the sequences over S of length at most n
SeqsUpTo(S, n) ==
  IF n = 0 THEN {<<>>}
  ELSE LET shorter == SeqsUpTo(S, n - 1) IN
       shorter \cup {Append(q, x) : q \in shorter, x \in S}

RoundTripLists == {List(q) : q \in SeqsUpTo({GenRecord, GenRecord2}, MaxRoundTripGens)}
\* the dicts of at most one model, and of two models in either order
OneModelDicts ==
  {Dict(<<>>)} \cup {Dict(<< <<m, g>> >>) : m \in RoundTripModels, g \in RoundTripLists}
TwoModelDicts ==
  {Dict(<< <<m[1], g1>>, <<m[2], g2>> >>) :
     m \in {p \in RoundTripModels \X RoundTripModels : p[1] # p[2]},
     g1 \in RoundTripLists, g2 \in RoundTripLists}
RoundTripCatalogs ==
  {Dict(<<>>)}
    \cup {Dict(<< <<b, m>> >>) : b \in CatalogBrands, m \in OneModelDicts \cup TwoModelDicts}
    \cup {Dict(<< <<b[1], m1>>, <<b[2], m2>> >>) :
            b \in {p \in CatalogBrands \X CatalogBrands : p[1] # p[2]},
            m1 \in OneModelDicts, m2 \in OneModelDicts}

RoundTripInit ==
  /\ pc = "serialize_body"
  /\ auto_audio_db \in RoundTripCatalogs
  /\ mainModule = <<Assign("auto_audio_db", auto_audio_db)>>
  /\ out = <<>>
  /\ posts = <<>>
  /\ response = NoResponse
  /\ exc = NoExc
  /\ ret = "none"
  /\ success = "unset"
  /\ exports = <<>>
  /\ file = NoFile
  /\ data = auto_audio_db
  /\ raised = <<>>
  /\ file0 = NoFile

\* line 24: data=json.dumps(data, ensure_ascii=False)
SerializeBody ==
  /\ pc = "serialize_body"
  /\ posts' = <<PostRequest(data)>>
  /\ pc' = "serialize_file"
  /\ UNCHANGED <<mainModule, auto_audio_db, out, response, exc, ret, success, exports,
                 file, data, raised, file0>>

\* lines 56-57: json.dump(data, f, ensure_ascii=False, indent=2)
SerializeFile ==
  /\ pc = "serialize_file"
  /\ file' = File(Dumps(data, 2, 0))
  /\ pc' = "parse"
  /\ UNCHANGED <<mainModule, auto_audio_db, out, posts, response, exc, ret, success,
                 exports, data, raised, file0>>

\* one of the two texts read back: response holds the text read, data the
\* value it was read as, ret whether it was read at all
ParseBack ==
  /\ pc = "parse"
  /\ \E text \in {posts[1].data, file.content} :
       /\ response' = [status_code |-> 200, text |-> text]
       /\ data' = Loads(text).v
       /\ ret' = IF Loads(text).ok THEN "True" ELSE "False"
  /\ pc' = "parsed"
  /\ UNCHANGED <<mainModule, auto_audio_db, out, posts, exc, success, exports, file,
                 raised, file0>>

RoundTripNext == SerializeBody \/ SerializeFile \/ ParseBack

RoundTripSpec == RoundTripInit /\ [][RoundTripNext]_vars

(***************************************************************************)
(* Properties.                                                             *)
(***************************************************************************)
Has(k) == \E i \in 1..Len(out) : out[i].k = k
\* the place of the first line printed by statement k
Pos(k) == CHOOSE i \in 1..Len(out) : out[i].k = k /\ \A j \in 1..(i - 1) : out[j].k # k

\* the orchestration is past the `if not success` of line 69
PastBranch == pc \in {"open", "dump", "instructions", "done", "crashed"}
\* send_to_tunexa has returned
SendReturned == ret # "none"

\* C1: whenever send_to_tunexa has returned False, export_to_json_file is
\* called exactly once, after the return, with the catalog send was called
\* with, and the manual-import instructions are printed only after
\* export_to_json_file has written the file and printed its two lines.
C1_FallbackExportOnce ==
  /\ Len(exports) <= 1
  /\ exports # <<>> => (ret = "False" /\ success = "False" /\ PastBranch)
  /\ (ret = "False" /\ PastBranch) =>
       (Len(exports) = 1 /\ exports[1].data = data /\ data = auto_audio_db)
  /\ Has("then_manually") =>
       /\ Has("copy_paste")
       /\ Pos("copy_paste") < Pos("then_manually")
       /\ Has("generic_error") \/ Has("connection_error") \/ Has("http_error")
       /\ file = File(Dumps(data, 2, 0))

C1_Witness ==
  pc = "done" /\ ret = "False" /\ Len(exports) = 1 /\ Has("then_manually")
    /\ Keys(data) = {"Skoda", "BMW"}

\* C2: whenever send_to_tunexa has returned True, export_to_json_file has
\* not been called and auto_audio_db.json is as the execution found it, in
\* that state and in every later one.
C2_NoFallbackOnSuccess ==
  ret = "True" =>
    /\ exports = <<>>
    /\ file = file0
    /\ pc \in {"returned", "done"}
    /\ ~Has("option2") /\ ~Has("exported_to") /\ ~Has("then_manually")

C2_Witness ==
  pc = "done" /\ success = "True" /\ file0.exists /\ Has("import_successful")

\* C3: requests.post is called at most once in an execution, and once it
\* has been called the script never stands before the call again, whatever
\* the call returned or raised.
C3_SinglePost ==
  /\ Len(posts) <= 1
  /\ Len(posts) = 1 => pc \notin {"import", "main", "post"}
  /\ (SendReturned \/ pc \in {"status", "except"}) => Len(posts) = 1

C3_Witness ==
  pc = "done" /\ ret = "False" /\ Len(posts) = 1 /\ raised # <<>>
    /\ raised[1].exc.cls = "ReadTimeout"


\* what requests.post raised, NoExc if it returned a response or was not called
PostRaised ==
  IF \E i \in 1..Len(raised) : raised[i].at = "post"
    THEN raised[CHOOSE i \in 1..Len(raised) : raised[i].at = "post"].exc
    ELSE NoExc
\* what lines 29-40 raised, NoExc if nothing
SummaryRaised ==
  IF \E i \in 1..Len(raised) : raised[i].at = "summary"
    THEN raised[CHOOSE i \in 1..Len(raised) : raised[i].at = "summary"].exc
    ELSE NoExc
\* the fallback: export_to_json_file is called once with the catalog on
\* the default path; auto_audio_db.json holds the whole catalog from the
\* moment the call completes; the call fails to complete only where the file
\* system rejected the write, which ends the process.
FallbackExported ==
  /\ PastBranch =>
       exports = <<[data |-> auto_audio_db, filename |-> DefaultFilename]>>
  /\ pc \in {"instructions", "done"} =>
       /\ file = File(Dumps(auto_audio_db, 2, 0))
       /\ Loads(file.content) = [ok |-> TRUE, v |-> auto_audio_db]
       /\ Has("exported_to")
  /\ pc = "crashed" => raised[Len(raised)].at \in {"open", "dump"}

\* C4: when requests.post raised a connection failure and send_to_tunexa
\* has returned, the connection message is what was printed (neither the HTTP
\* status report nor the generic report), the return value is False, and the
\* fallback export follows.
C4_ConnectionFailure ==
  (IsInstance(PostRaised, "ConnectionError") /\ SendReturned) =>
    /\ ret = "False"
    /\ Has("connection_error") /\ Has("run_npm_start")
    /\ ~Has("http_error") /\ ~Has("generic_error") /\ ~Has("import_successful")
    /\ pc # "returned" => PastBranch
    /\ FallbackExported

C4_Witness ==
  /\ PostRaised = Exc("ConnectionError", "Connection refused")
  /\ pc = "done" /\ Has("connection_error")
  /\ file = File(Dumps(auto_audio_db, 2, 0)) /\ file # file0

\* C5: when the response has a status other than 200 and send_to_tunexa has
\* returned, the status code and then the response text as received were
\* printed, nothing tried to read the text as JSON, the return value is
\* False, and the fallback export follows with the whole catalog.
C5_HttpErrorStatus ==
  (response # NoResponse /\ response.status_code # 200 /\ SendReturned) =>
    /\ ret = "False"
    /\ \E i \in 1..(Len(out) - 1) :
          /\ out[i].k = "http_error" /\ out[i].a = Num(response.status_code)
          /\ out[i + 1].k = "response_text" /\ out[i + 1].a = List(response.text)
    /\ \A i \in 1..Len(raised) : raised[i].at \notin {"post", "summary"}
    /\ ~Has("import_successful") /\ ~Has("connection_error") /\ ~Has("generic_error")
    /\ pc # "returned" => PastBranch
    /\ FallbackExported

C5_Witness ==
  /\ response = [status_code |-> 500, text |-> <<TStr("internal error")>>]
  /\ pc = "done" /\ Has("http_error") /\ Keys(auto_audio_db) = {"Skoda", "BMW"}
  /\ file = File(Dumps(auto_audio_db, 2, 0)) /\ file # file0

\* C6: an exception raised inside send_to_tunexa is always caught by one of
\* its two except clauses; when it is not a connection failure, the generic
\* report with the text of the exception is printed and the return value is
\* False.  The process is ended by an exception only in export_to_json_file,
\* after send_to_tunexa has returned and success has been assigned.
C6_GenericFailure ==
  /\ pc = "except" =>
       /\ exc = raised[Len(raised)].exc /\ raised[Len(raised)].at \in {"post", "summary"}
       /\ IsInstance(exc, "Exception")
       /\ ENABLED (ExceptConnectionError \/ ExceptException)
  /\ \A i \in 1..Len(raised) :
       (raised[i].at \in {"post", "summary"} /\ pc # "except"
          /\ ~IsInstance(raised[i].exc, "ConnectionError")) =>
         /\ ret = "False"
         /\ \E j \in 1..Len(out) :
               out[j].k = "generic_error" /\ out[j].a = Str(raised[i].exc.text)
         /\ ~Has("connection_error") /\ ~Has("http_error")
  /\ pc = "crashed" => (ret = "False" /\ raised[Len(raised)].at \in {"open", "dump"})
  /\ (PastBranch \/ pc = "done") => (success = ret /\ ret \in {"True", "False"})

C6_Witness ==
  /\ SummaryRaised.cls = "JSONDecodeError"
  /\ response.status_code = 200
  /\ pc = "done" /\ success = "False" /\ Has("generic_error")

\* C7 as stated: whenever requests.post timed out, connecting or reading,
\* send_to_tunexa prints the generic report, not the connection message, and
\* returns False.
C7_TimeoutIsGeneric ==
  (IsInstance(PostRaised, "Timeout") /\ SendReturned) =>
    /\ ret = "False"
    /\ Has("generic_error")
    /\ ~Has("connection_error")

\* C7 as amended: a timeout while waiting for the response (ReadTimeout) is
\* reported by the generic clause with its text; a timeout while connecting
\* (ConnectTimeout, a ConnectionError) is reported by the connection clause;
\* either way nothing reports success and the return value is False.
C7_TimeoutFailure ==
  (IsInstance(PostRaised, "Timeout") /\ SendReturned) =>
    /\ ret = "False"
    /\ ~Has("import_successful") /\ ~Has("http_error")
    /\ PostRaised.cls = "ReadTimeout" =>
         /\ \E j \in 1..Len(out) :
               out[j].k = "generic_error" /\ out[j].a = Str(PostRaised.text)
         /\ ~Has("connection_error")
    /\ PostRaised.cls = "ConnectTimeout" =>
         (Has("connection_error") /\ ~Has("generic_error"))
    /\ PostRaised.cls \in {"ReadTimeout", "ConnectTimeout"}

C7_Witness ==
  /\ PostRaised.cls = "ConnectTimeout"
  /\ pc = "done" /\ success = "False"
  /\ Has("connection_error") /\ ~Has("generic_error")

\* C8: when importing auto_audio_db from main raises an exception, the
\* script goes from the import straight to its end: the last thing printed is
\* the SystemExit message with the text of the exception, requests.post and
\* export_to_json_file are never called, auto_audio_db.json is as the
\* execution found it, and no step follows.  An abort has no other cause.
C8_AbortOnImportFailure ==
  /\ ImportMain(mainModule).exc # NoExc =>
       /\ pc \in {"import", "aborted"}
       /\ posts = <<>> /\ exports = <<>> /\ file = file0
       /\ auto_audio_db = None /\ ret = "none"
       /\ ~Has("banner") /\ ~Has("sending")
  /\ pc = "aborted" =>
       /\ ImportMain(mainModule).exc # NoExc
       /\ raised = <<Raised("import", ImportMain(mainModule).exc)>>
       /\ out[Len(out)].k = "SystemExit"
       /\ out[Len(out)].a = Str(ImportMain(mainModule).exc.text)
       /\ ~ENABLED Next

C8_Witness ==
  pc = "aborted" /\ mainModule = main_py /\ raised[1].exc.cls = "IndentationError"
    /\ file0.exists

\* C9 as stated: once main.py has been loaded, auto_audio_db is the mapping
\* whose keys are the brands written in main.py, and the number of brands
\* announced for sending is the number of brands written.
C9_CatalogHoldsAuthoredBrands ==
  (mainModule = main_py /\ pc # "import") =>
    /\ auto_audio_db.t = "dict"
    /\ Keys(auto_audio_db) = AuthoredBrands(main_py)
    /\ Has("sending") =>
         out[Pos("sending")].a = Num(Cardinality(AuthoredBrands(main_py)))

\* a body that keeps to the response contract: a JSON object whose keys are
\* among the six fields, the counts integers, errors a list of strings
ContractFields == Range(CountFields) \cup {"errors"}
KeepsContract(text) ==
  LET parsed == Loads(text) IN
  /\ parsed.ok
  /\ parsed.v.t = "dict"
  /\ Keys(parsed.v) \subseteq ContractFields
  /\ \A k \in Keys(parsed.v) \ {"errors"} : Item(parsed.v, k).t = "int"
  /\ "errors" \in Keys(parsed.v) =>
       /\ Item(parsed.v, "errors").t = "list"
       /\ \A i \in 1..Len(Item(parsed.v, "errors").items) :
             Item(parsed.v, "errors").items[i].t = "str"

\* C10: when the response has status 200 and its body keeps to the contract,
\* with any of the six fields present or absent, the branch of lines 29-40
\* raises nothing, prints "Import successful" followed by the five count
\* lines, and send_to_tunexa returns True.
C10_SuccessOn200 ==
  (response.status_code = 200 /\ KeepsContract(response.text) /\ pc # "status") =>
    /\ ret = "True"
    /\ raised = <<>>
    /\ pc \in {"returned", "done"}
    /\ \E i \in 1..Len(out) :
          /\ i + 5 <= Len(out)
          /\ out[i].k = "import_successful"
          /\ out[i + 1].k = "brands_processed"
          /\ out[i + 2].k = "models_processed"
          /\ out[i + 3].k = "created"
          /\ out[i + 4].k = "updated"
          /\ out[i + 5].k = "skipped"
    /\ ~Has("generic_error") /\ ~Has("connection_error") /\ ~Has("http_error")

C10_Witness ==
  /\ response.status_code = 200
  /\ Loads(response.text).ok
  /\ Loads(response.text).v = Dict(<< <<"errors", ErrorList(MaxErrors)>> >>)
  /\ pc = "done" /\ success = "True"

\* the parsed body of the response, for a response whose body is a JSON object
ResultIsObject == Loads(response.text).ok /\ Loads(response.text).v.t = "dict"
Result == Loads(response.text).v
\* the line kind that displays a count field
CountLine(field) ==
  CASE field = "brands" -> "brands_processed"
    [] field = "models" -> "models_processed"
    [] field = "created" -> "created"
    [] field = "updated" -> "updated"
    [] field = "skipped" -> "skipped"
\* the 200 branch has run on a JSON object
SummaryRan == response.status_code = 200 /\ pc # "status" /\ ResultIsObject

\* C11: after the 200 branch has run on a JSON object, each of the five
\* count lines is printed once and shows the value of its field, 0 for a
\* field the body does not have; the "Errors:" line and the listed errors
\* are printed only for a body whose errors value is present and non-empty,
\* and with errors absent, null or an empty list none of them is printed and
\* nothing is raised for it.
C11_AbsentFieldsAsZero ==
  SummaryRan =>
    /\ \A f \in Range(CountFields) :
         \E i \in 1..Len(out) :
           /\ out[i].k = CountLine(f)
           /\ \A j \in 1..Len(out) : out[j].k = CountLine(f) => j = i
           /\ out[i].a = (IF f \in Keys(Result) THEN Item(Result, f) ELSE Num(0))
    /\ (Has("errors") \/ Has("error_item")) =>
         ("errors" \in Keys(Result) /\ Truthy(Item(Result, "errors")))
    /\ ("errors" \notin Keys(Result) \/ ~Truthy(Item(Result, "errors"))) =>
         /\ ~Has("errors") /\ ~Has("error_item")
         /\ raised = <<>> /\ ret = "True"

C11_Witness ==
  /\ SummaryRan /\ Keys(Result) = {"created"}
  /\ pc = "done" /\ success = "True"
  /\ \E i \in 1..Len(out) : out[i].k = "brands_processed" /\ out[i].a = Num(0)
  /\ ~Has("errors")

\* C12: an error of the file system inside export_to_json_file is the last
\* thing that happens: it is still being raised when the process ends with a
\* traceback, no step follows, and neither "Exported to", nor the line after
\* it, nor any line of the manual-import instructions has been printed.  The
\* process ends this way for no other reason.
C12_WriteErrorPropagates ==
  /\ \A i \in 1..Len(raised) :
       raised[i].at \in {"open", "dump"} =>
         /\ i = Len(raised)
         /\ pc = "crashed"
         /\ exc = raised[i].exc /\ IsInstance(exc, "OSError")
  /\ pc = "crashed" =>
       /\ raised # <<>> /\ raised[Len(raised)].at \in {"open", "dump"}
       /\ out[Len(out)].k = "traceback"
       /\ ~Has("exported_to") /\ ~Has("copy_paste")
       /\ ~Has("then_manually") /\ ~Has("step1") /\ ~Has("step2")
       /\ ~Has("step3") /\ ~Has("step4")
       /\ ~ENABLED Next

C12_Witness ==
  /\ pc = "crashed" /\ raised[Len(raised)].at = "open"
  /\ exc.cls = "PermissionError"
  /\ file = file0 /\ file0.exists
  /\ Has("option2")

\* C13: from the end of the import on, in every state of the execution,
\* auto_audio_db is the value the module main bound to it, and so is every
\* use made of it: the argument of send_to_tunexa, the body of the request
\* and the argument of export_to_json_file.
C13_CatalogImmutable ==
  pc \notin {"import", "aborted"} =>
    /\ auto_audio_db = ImportMain(mainModule).value
    /\ pc # "main" => data = auto_audio_db
    /\ \A i \in 1..Len(posts) :
         posts[i].data = Dumps(ImportMain(mainModule).value, NoIndent, 0)
    /\ \A i \in 1..Len(exports) : exports[i].data = ImportMain(mainModule).value

C13_Witness ==
  /\ pc = "done" /\ success = "False" /\ Len(exports) = 1
  /\ Keys(auto_audio_db) = {"Skoda", "BMW"}
  /\ auto_audio_db = ImportMain(mainModule).value
  /\ file.exists /\ file # file0

RECURSIVE SameMapping(_, _)
SameMapping(a, b) ==
  /\ a.t = b.t
  /\ CASE a.t = "str" -> a.s = b.s
        [] a.t = "list" ->
             /\ Len(a.items) = Len(b.items)
             /\ \A i \in 1..Len(a.items) : SameMapping(a.items[i], b.items[i])
        [] a.t = "dict" ->
             /\ Len(a.pairs) = Len(b.pairs)
             /\ Keys(a) = Keys(b)
             /\ \A k \in Keys(a) : SameMapping(Item(a, k), Item(b, k))
        [] OTHER -> a = b

\* C15: for every drawn catalog, the text json.dumps makes of it for the
\* request and the text json.dump makes of it for the file both read back,
\* and as a value that is the catalog up to key order: the same brands, the
\* same models under each brand, and under each model the same records in
\* the same order.
C15_RoundTrip ==
  pc = "parsed" =>
    /\ ret = "True"
    /\ SameMapping(data, auto_audio_db)
    /\ response.text \in {Dumps(auto_audio_db, NoIndent, 0), Dumps(auto_audio_db, 2, 0)}

C15_Witness ==
  /\ pc = "parsed" /\ ret = "True"
  /\ response.text = file.content
  /\ Len(auto_audio_db.pairs) = 1
  /\ Len(auto_audio_db.pairs[1][2].pairs) = 2
  /\ auto_audio_db.pairs[1][2].pairs[1][2] = List(<<GenRecord2, GenRecord>>)
  /\ auto_audio_db.pairs[1][2].pairs[2][2] = List(<<>>)
  /\ data = auto_audio_db

\* the brand mappings written in a text of main.py
AuthoredLiterals(src) ==
  {src[i].value : i \in {j \in 1..Len(src) : src[j].op = "assign" /\ src[j].name \in BrandLiterals}}
    \cup {src[i].brands : i \in {j \in 1..Len(src) : src[j].op = "unparseable"}}

RecordKeys == {"generacia", "roky", "zakladny_system", "premiovy_system"}

\* E is a mapping of exactly the four record keys to strings
RecordShaped(E) ==
  /\ E.t = "dict"
  /\ Len(E.pairs) = 4
  /\ Keys(E) = RecordKeys
  /\ \A k \in RecordKeys : Item(E, k).t = "str"

\* every brand of the mapping holds models, every model a list, and every
\* entry of every list is record shaped
ShapedBrands(brands) ==
  /\ brands.t = "dict"
  /\ \A B \in Keys(brands) :
       /\ Item(brands, B).t = "dict"
       /\ \A M \in Keys(Item(brands, B)) :
            /\ Item(Item(brands, B), M).t = "list"
            /\ \A i \in 1..Len(Item(Item(brands, B), M).items) :
                 RecordShaped(Item(Item(brands, B), M).items[i])

\* main.py as shipped: its four brand mappings are of that shape
AuthoredShaped == \A lit \in AuthoredLiterals(main_py) : ShapedBrands(lit)
AuthoredCount == Cardinality(AuthoredBrands(main_py))

\* C16: in every run, every entry E of every generation list of every model
\* M of every brand B, in each brand mapping written in main.py and in the
\* catalog the script holds once it has imported one, is a mapping of exactly the four keys
\* generacia, roky, zakladny_system, premiovy_system to strings: no other
\* key, no missing key.
C16_RecordShape ==
  /\ AuthoredShaped
  /\ auto_audio_db.t # "None" => ShapedBrands(auto_audio_db)

C16_Witness ==
  /\ mainModule = main_py
  /\ pc = "aborted"
  /\ AuthoredCount = 35

\* how far down the text of the script a position is
Rank(p) ==
  CASE p = "import" -> 0
    [] p \in {"aborted", "main"} -> 1
    [] p = "post" -> 2
    [] p = "status" -> 3
    [] p = "except" -> 4
    [] p = "returned" -> 5
    [] p = "open" -> 6
    [] p = "dump" -> 7
    [] p = "instructions" -> 8
    [] p \in {"done", "crashed"} -> 9

Terminated == pc \in {"aborted", "done", "crashed"}

\* the three ways a run ends
AbortedAtStartup == pc = "aborted" /\ posts = <<>> /\ exports = <<>> /\ file = file0
SendSucceeded ==
  pc = "done" /\ success = "True" /\ Len(posts) = 1 /\ exports = <<>> /\ file = file0
SendFailedExportAttempted ==
  pc \in {"done", "crashed"} /\ success = "False" /\ Len(posts) = 1 /\ Len(exports) = 1

\* C17: every run goes down the script without ever going back, ends, takes
\* no step after its end, and ends in exactly one of three ways: aborted at
\* startup with no request and no file written; send succeeded and no file
\* written; send failed and the export called.
C17_RunsOnceToCompletion ==
  /\ [][Rank(pc') > Rank(pc) /\ ~Terminated]_vars
  /\ <>Terminated
  /\ [](Terminated =>
         /\ AbortedAtStartup \/ SendSucceeded \/ SendFailedExportAttempted
         /\ ~(AbortedAtStartup /\ SendSucceeded)
         /\ ~(AbortedAtStartup /\ SendFailedExportAttempted)
         /\ ~(SendSucceeded /\ SendFailedExportAttempted))

C17_Witness ==
  /\ pc = "crashed"
  /\ SendFailedExportAttempted
  /\ Len(raised) = 2
  /\ raised[1].at = "post" /\ raised[2].at = "dump"

\* C18 as stated: in no run is "Import successful!" printed and, after it,
\* the failure of send reported, False returned and the fallback file
\* written.
C18_SuccessMessageOnlyOnSuccess ==
  ~ /\ Has("import_successful")
    /\ Has("generic_error")
    /\ Pos("import_successful") < Pos("generic_error")
    /\ success = "False"
    /\ Has("exported_to")
    /\ file = File(Dumps(auto_audio_db, 2, 0))

\* the places of the lines printed for the entries of the errors list
ErrorItemLines == {i \in 1..Len(out) : out[i].k = "error_item"}
\* the 200 branch has run on an object whose errors is a non-empty list
ErrorsListed ==
  /\ SummaryRan
  /\ "errors" \in Keys(Result)
  /\ Item(Result, "errors").t = "list"
  /\ Item(Result, "errors").items # <<>>

\* C19: after the 200 branch has run on a body whose errors list has n > 0
\* entries, the "Errors:" line is printed once and shows n, min(n, 5) error
\* lines are printed, and they are the first min(n, 5) entries of the list,
\* in the order of the list, right after the "Errors:" line.
C19_ErrorsCountAndFirstFive ==
  ErrorsListed =>
    /\ Has("errors")
    /\ \A errors \in {Item(Result, "errors").items}, p \in {Pos("errors")} :
         \A shown \in {IF Len(errors) < 5 THEN Len(errors) ELSE 5} :
           /\ \A i \in 1..Len(out) : out[i].k = "errors" => i = p
           /\ out[p].a = Num(Len(errors))
           /\ Cardinality(ErrorItemLines) = shown
           /\ ErrorItemLines = (p + 1)..(p + shown)
           /\ \A i \in 1..shown : out[p + i].a = errors[i]

C19_Witness ==
  /\ ErrorsListed
  /\ Len(Item(Result, "errors").items) = MaxErrors
  /\ MaxErrors > 5
  /\ Cardinality(ErrorItemLines) = 5
  /\ pc = "done" /\ success = "True"
=============================================================================
